---- MODULE Spec2Model ----
(***************************************************************************)
(* State-machine model of konzouridakis/function_plotter:                  *)
(*   function_plotter.py  - the command-line prompt loop (main)            *)
(*   plotter_gui.py       - the two-tab Tk application (PlotterGUI)        *)
(* The two scripts share nothing but the working directory, fs.  A         *)
(* behaviour is a session of one of them (program), started in a directory *)
(* that may hold files of earlier sessions; main may be run again and      *)
(* again.  The status labels of the GUI and the terminal are write-only:   *)
(* what a handler shows or prints is recorded in last.out.                 *)
(*                                                                         *)
(* A Python str is a sequence of one-character strings.  The input         *)
(* alphabet is: the letters x y (symbols), the digits, + - * / ^ = ( ),    *)
(* the blank, and for file names letters, '.', '_'.  Symbols are one       *)
(* letter and numbers one digit in the inputs enumerated below.            *)
(***************************************************************************)
EXTENDS Integers, Sequences, FiniteSets, TLC

VARIABLES
    fs,                 \* the paths that exist in the working directory
    latex_ok,           \* check_latex_dependencies found latex, dvipng and gs
    program,            \* the script this session runs
    cli_pc,             \* function_plotter: "prompt" inside main's loop
    func_fig, func_canvas, func_export_btn,     \* PlotterGUI, function tab
    eqn_fig, eqn_canvas, eqn_export_btn,        \* PlotterGUI, equation tab
    last                \* the last handler run (see NoRun)

vars == <<fs, latex_ok, program, cli_pc, func_fig, func_canvas,
          func_export_btn, eqn_fig, eqn_canvas, eqn_export_btn, last>>

(***************************************************************************)
(* Bounds of the model.                                                    *)
(***************************************************************************)
MaxFiles == 2

(***************************************************************************)
(* str methods                                                             *)
(***************************************************************************)
RECURSIVE replace(_)
replace(s) ==
    IF s = <<>> THEN <<>>
    ELSE IF Head(s) = "^" THEN <<"*", "*">> \o replace(Tail(s))
    ELSE <<Head(s)>> \o replace(Tail(s))

RECURSIVE lstrip(_)
lstrip(s) == IF s # <<>> /\ Head(s) = " " THEN lstrip(Tail(s)) ELSE s

RECURSIVE rstrip(_)
rstrip(s) ==
    IF s # <<>> /\ s[Len(s)] = " " THEN rstrip(SubSeq(s, 1, Len(s) - 1)) ELSE s

strip(s) == rstrip(lstrip(s))

endswith(s, suffix) ==
    /\ Len(suffix) <= Len(s)
    /\ SubSeq(s, Len(s) - Len(suffix) + 1, Len(s)) = suffix

\* s.split('='): the pieces between the occurrences of '=', in order
RECURSIVE split(_, _)
split(s, acc) ==
    IF s = <<>> THEN <<acc>>
    ELSE IF Head(s) = "=" THEN <<acc>> \o split(Tail(s), <<>>)
    ELSE split(Tail(s), Append(acc, Head(s)))

\* str(n) for n >= 0, as the f-strings format a counter or a hash residue
Digit(d) == <<"0", "1", "2", "3", "4", "5", "6", "7", "8", "9">>[d + 1]

RECURSIVE str_int(_)
str_int(n) == IF n < 10 THEN <<Digit(n)>>
              ELSE str_int(n \div 10) \o <<Digit(n % 10)>>

\* os.path.splitext on a name without directory separators: the extension
\* starts at the last dot, unless only dots precede it
splitext(p) ==
    LET dots == {i \in 1..Len(p) : p[i] = "."}
        dotIndex == IF dots = {} THEN 0
                    ELSE CHOOSE i \in dots : \A j \in dots : j <= i
    IN  IF dotIndex > 0 /\ \E j \in 1..(dotIndex - 1) : p[j] # "."
        THEN <<SubSeq(p, 1, dotIndex - 1), SubSeq(p, dotIndex, Len(p))>>
        ELSE <<p, <<>> >>

(***************************************************************************)
(* The directory both programs write into: fs is the set of existing paths *)
(***************************************************************************)
exists(path) == path \in fs

RECURSIVE safe_loop(_, _, _)
safe_loop(base_filename, final_filename, counter) ==
    IF exists(final_filename)
    THEN LET ne == splitext(base_filename)
         IN  safe_loop(base_filename,
                       ne[1] \o <<"_">> \o str_int(counter) \o ne[2],
                       counter + 1)
    ELSE final_filename

\* get_safe_filename with the counter started at 2
get_safe_filename_from_2(base_filename, format) ==
    LET b1 == IF base_filename = <<>> THEN <<"o", "u", "t", "p", "u", "t">>
              ELSE base_filename
        b2 == IF ~endswith(b1, <<".">> \o format) THEN b1 \o <<".">> \o format
              ELSE b1
    IN  safe_loop(b2, b2, 2)

\* function_plotter.get_safe_filename
get_safe_filename(base_filename, format) ==
    LET b1 == IF base_filename = <<>> THEN <<"o", "u", "t", "p", "u", "t">>
              ELSE base_filename
        b2 == IF ~endswith(b1, <<".">> \o format) THEN b1 \o <<".">> \o format
              ELSE b1
    IN  safe_loop(b2, b2, 1)

RECURSIVE gui_safe_loop(_, _, _)
gui_safe_loop(base_filename, final_filename, counter) ==
    IF exists(final_filename)
    THEN LET ne == splitext(base_filename)
         IN  gui_safe_loop(base_filename,
                           ne[1] \o <<"_">> \o str_int(counter) \o ne[2],
                           counter + 1)
    ELSE final_filename

\* plotter_gui.get_safe_filename
gui_get_safe_filename(base_filename, ext) ==
    LET b1 == IF base_filename = <<>> THEN <<"o", "u", "t", "p", "u", "t">>
              ELSE base_filename
        b2 == IF ~endswith(b1, <<".">> \o ext) THEN b1 \o <<".">> \o ext
              ELSE b1
    IN  gui_safe_loop(b2, b2, 1)

(***************************************************************************)
(* sympify: the expression as a prefix sequence of tokens, or ParseError.  *)
(* The grammar is Python's for + - * / ** over one-letter symbols,         *)
(* one-digit numbers and parentheses; parse_expr strips the string first.  *)
(***************************************************************************)
ParseError == <<"SympifyError">>
Symbols == {"x", "y", "z"}
Digits == {"0", "1", "2", "3", "4", "5", "6", "7", "8", "9"}

\* the greatest / least index in 2..Len(s)-1 satisfying P, or 0
Last(S) == IF S = {} THEN 0 ELSE CHOOSE i \in S : \A j \in S : j <= i
First(S) == IF S = {} THEN 0 ELSE CHOOSE i \in S : \A j \in S : i <= j

RECURSIVE arith(_), term(_), factor(_), power(_), atom(_)
atom(s) ==
    IF Len(s) = 1 /\ s[1] \in Symbols \cup Digits THEN s
    ELSE IF Len(s) >= 3 /\ s[1] = "(" /\ s[Len(s)] = ")"
         THEN arith(SubSeq(s, 2, Len(s) - 1))
         ELSE ParseError

power(s) ==
    LET k == First({i \in 2..(Len(s) - 2) :
                      /\ s[i] = "*" /\ s[i + 1] = "*"
                      /\ atom(SubSeq(s, 1, i - 1)) # ParseError
                      /\ factor(SubSeq(s, i + 2, Len(s))) # ParseError})
    IN  IF k # 0
        THEN <<"Pow">> \o atom(SubSeq(s, 1, k - 1))
                       \o factor(SubSeq(s, k + 2, Len(s)))
        ELSE atom(s)

factor(s) ==
    IF Len(s) >= 2 /\ s[1] \in {"+", "-"}
    THEN LET f == factor(Tail(s))
         IN  IF f = ParseError THEN ParseError
             ELSE IF s[1] = "-" THEN <<"Neg">> \o f ELSE f
    ELSE power(s)

term(s) ==
    LET k == Last({i \in 2..(Len(s) - 1) :
                     /\ s[i] \in {"*", "/"}
                     /\ term(SubSeq(s, 1, i - 1)) # ParseError
                     /\ factor(SubSeq(s, i + 1, Len(s))) # ParseError})
    IN  IF k # 0
        THEN <<IF s[k] = "*" THEN "Mul" ELSE "Div">>
                 \o term(SubSeq(s, 1, k - 1))
                 \o factor(SubSeq(s, k + 1, Len(s)))
        ELSE factor(s)

arith(s) ==
    LET k == Last({i \in 2..(Len(s) - 1) :
                     /\ s[i] \in {"+", "-"}
                     /\ arith(SubSeq(s, 1, i - 1)) # ParseError
                     /\ term(SubSeq(s, i + 1, Len(s))) # ParseError})
    IN  IF k # 0
        THEN <<IF s[k] = "+" THEN "Add" ELSE "Sub">>
                 \o arith(SubSeq(s, 1, k - 1))
                 \o term(SubSeq(s, k + 1, Len(s)))
        ELSE term(s)

sympify(a) == arith(strip(a))

\* the symbols an expression mentions (lambdify binds only those it is given)
free_symbols(expr) == {expr[i] : i \in 1..Len(expr)} \cap Symbols

(***************************************************************************)
(* float.  A float is [nan, v]: NaN compares false with everything.        *)
(***************************************************************************)
NaN == [nan |-> TRUE, v |-> 0]
Num(n) == [nan |-> FALSE, v |-> n]
BadFloat == [nan |-> TRUE, v |-> 1]       \* float() raised

DigitValue(c) == CHOOSE d \in 0..9 : Digit(d) = c

\* float(str): an optional sign and a digit, or nan; ValueError otherwise
float(text) ==
    LET t == strip(text)
    IN  IF t = <<"n", "a", "n">> THEN NaN
        ELSE IF Len(t) = 1 /\ t[1] \in Digits THEN Num(DigitValue(t[1]))
        ELSE IF Len(t) = 2 /\ t[1] = "-" /\ t[2] \in Digits
             THEN Num(0 - DigitValue(t[2]))
        ELSE BadFloat

\* float(sympify(str)): sympify knows the name nan; a symbolic expression
\* has no float value (TypeError), an unparsable text raises SympifyError
sympify_float(text) ==
    LET t == strip(text)
        e == sympify(t)
    IN  IF t = <<"n", "a", "n">> THEN NaN
        ELSE IF Len(e) = 1 /\ e[1] \in Digits THEN Num(DigitValue(e[1]))
        ELSE IF Len(e) = 2 /\ e[1] = "Neg" /\ e[2] \in Digits
             THEN Num(0 - DigitValue(e[2]))
        ELSE BadFloat

ge(a, b) == ~a.nan /\ ~b.nan /\ a.v >= b.v
lt(a, b) == ~a.nan /\ ~b.nan /\ a.v < b.v

(***************************************************************************)
(* What the environment decides during one plot: whether drawing succeeds, *)
(* how each savefig ends, and the process's hash of the input string.      *)
(***************************************************************************)
HashMod == 10000
N_FUNC == 1000
N_EQN == 400
Hashes == {-9999}
WriteErrors == {"error"}

PlotEnvs ==
    {[render |-> r, w1 |-> "ok", w2 |-> "ok", hash |-> -9999] : r \in BOOLEAN}
    \cup [render : {TRUE}, w1 : WriteErrors,
          w2 : {"ok"} \cup WriteErrors, hash : Hashes]

\* Figure.savefig: the files afterwards
savefig(files, filename, outcome) ==
    IF outcome = "error" THEN files ELSE files \cup {filename}

OSError(filename) == <<"[Errno 13] Permission denied: '">> \o filename \o <<"'">>
RenderError == <<"latex was not able to process the following string">>
NameError(expr, bound) ==
    <<"name '", CHOOSE v \in free_symbols(expr) \ bound : TRUE, "' is not defined">>
SympifyError(a) ==
    <<"Sympify of expression 'could not parse '">> \o a
        \o <<"'' failed, because of exception being raised: SyntaxError">>
UnpackError == <<"too many values to unpack (expected 2)">>

\* the state of one plot_function / plot_equation call: the steps completed,
\* the grid sampled, the expressions, the writes, the lines printed, the
\* files, (normalized) the string the call had parsed and (bounds) the
\* bounds it was called with
Progress(stages, dom, expr, eq, parts) ==
    [ret |-> FALSE, stages |-> stages, raised |-> <<>>, dom |-> dom,
     expr |-> expr, eq |-> eq, parts |-> parts, writes |-> <<>>,
     out |-> <<>>, files |-> fs, normalized |-> <<>>, bounds |-> <<>>]

\* the handlers at lines 123-125 and 163-165: print the exception, return False
Raise(r, prefix, e) ==
    [r EXCEPT !.raised = e, !.out = Append(@, prefix \o e)]

\* one savefig call of the plot r
Attempt(r, filename, outcome) ==
    [r EXCEPT !.files = savefig(@, filename, outcome),
              !.writes = Append(@, [path |-> filename, outcome |-> outcome]),
              !.stages = IF outcome = "ok" THEN Append(@, "savefig") ELSE @,
              !.ret = (outcome = "ok")]

\* lines 114 and 157
default_filename(hash, format) ==
    <<"o", "u", "t", "p", "u", "t", "_">> \o str_int(hash % HashMod)
        \o <<".">> \o format

\* lines 111-118 and 155-160: the handler of the first savefig's exception;
\* an exception of the second savefig reaches the handler of the whole body
save_fallback(r, filename, default, outcome, prefix) ==
    IF outcome = "ok"
    THEN Attempt([r EXCEPT !.out = @ \o << <<"Error saving file: ">> \o OSError(filename),
                                          <<"Attempting to save as ">> \o default >>],
                 default, outcome)
    ELSE Raise(Attempt([r EXCEPT !.out = @ \o << <<"Error saving file: ">> \o OSError(filename),
                                                <<"Attempting to save as ">> \o default >>],
                       default, outcome),
               prefix, OSError(default))

\* lines 108-121 and 153-162
save_with_fallback(r, filename, format, env, prefix) ==
    IF env.w1 = "ok" THEN Attempt(r, filename, env.w1)
    ELSE save_fallback(Attempt(r, filename, env.w1), filename,
                       default_filename(env.hash, format), env.w2, prefix)

FuncDom(x_min, x_max) == << [lo |-> x_min, hi |-> x_max, n |-> N_FUNC] >>
EqnDom(x_min, x_max, y_min, y_max) ==
    << [lo |-> x_min, hi |-> x_max, n |-> N_EQN],
       [lo |-> y_min, hi |-> y_max, n |-> N_EQN] >>

\* plot_function_expr with savefig called before the drawing has ended
plot_function_expr_save_first(expr, func_str, dom, filename, format, env) ==
    IF expr = ParseError
    THEN Raise(Progress(<<>>, <<>>, <<>>, <<>>, <<>>),
               <<"Error plotting function: ">>, SympifyError(func_str))
    ELSE IF ~(free_symbols(expr) \subseteq {"x"})
    THEN Raise(Progress(<<"sympify", "lambdify", "linspace">>, dom, expr, <<>>, <<>>),
               <<"Error plotting function: ">>, NameError(expr, {"x"}))
    ELSE IF ~env.render
    THEN Raise(Attempt(Progress(<<"sympify", "lambdify", "linspace", "evaluate">>,
                                dom, expr, <<>>, <<>>),
                       filename, env.w1),
               <<"Error plotting function: ">>, RenderError)
    ELSE save_with_fallback(
           Progress(<<"sympify", "lambdify", "linspace", "evaluate", "render">>,
                    dom, expr, <<>>, <<>>),
           filename, format, env, <<"Error plotting function: ">>)

\* plot_function from line 72 on, expr being sympify(func_str)
plot_function_expr(expr, func_str, dom, filename, format, env) ==
    IF expr = ParseError
    THEN Raise(Progress(<<>>, <<>>, <<>>, <<>>, <<>>),
               <<"Error plotting function: ">>, SympifyError(func_str))
    ELSE IF ~(free_symbols(expr) \subseteq {"x"})
    THEN Raise(Progress(<<"sympify", "lambdify", "linspace">>, dom, expr, <<>>, <<>>),
               <<"Error plotting function: ">>, NameError(expr, {"x"}))
    ELSE IF ~env.render
    THEN Raise(Progress(<<"sympify", "lambdify", "linspace", "evaluate">>,
                        dom, expr, <<>>, <<>>),
               <<"Error plotting function: ">>, RenderError)
    ELSE save_with_fallback(
           Progress(<<"sympify", "lambdify", "linspace", "evaluate", "render">>,
                    dom, expr, <<>>, <<>>),
           filename, format, env, <<"Error plotting function: ">>)

\* function_plotter.plot_function
plot_function(func_str, x_min, x_max, filename, format, env) ==
    [plot_function_expr(sympify(func_str), func_str, FuncDom(x_min, x_max),
                        filename, format, env)
       EXCEPT !.normalized = func_str, !.bounds = <<x_min, x_max>>]

\* lines 131-138 of function_plotter.plot_equation: the string to
\* [raised, parts, eq, expr]
Exprs(raised, parts, eq, expr) ==
    [raised |-> raised, parts |-> parts, eq |-> eq, expr |-> expr]

\* equation_sides with the difference taken the other way round
equation_sides_swapped(parts, left, right) ==
    IF left = ParseError THEN Exprs(SympifyError(parts[1]), parts, <<>>, <<>>)
    ELSE IF right = ParseError THEN Exprs(SympifyError(parts[2]), parts, <<>>, <<>>)
    ELSE Exprs(<<>>, parts, <<"Eq">> \o left \o right, <<"Sub">> \o right \o left)

\* lines 134-135
equation_sides(parts, left, right) ==
    IF left = ParseError THEN Exprs(SympifyError(parts[1]), parts, <<>>, <<>>)
    ELSE IF right = ParseError THEN Exprs(SympifyError(parts[2]), parts, <<>>, <<>>)
    ELSE Exprs(<<>>, parts, <<"Eq">> \o left \o right, <<"Sub">> \o left \o right)

\* equation_split as split('=', 1) would have it: the pieces after the first
\* are one right side
RECURSIVE join(_)
join(parts) ==
    IF Len(parts) = 1 THEN parts[1]
    ELSE parts[1] \o <<"=">> \o join(Tail(parts))
equation_split_first(parts) ==
    equation_sides(<<parts[1], join(Tail(parts))>>,
                   sympify(parts[1]), sympify(join(Tail(parts))))

\* line 133: left, right = equation_str.split('=')
equation_split(parts) ==
    IF Len(parts) # 2 THEN Exprs(UnpackError, <<>>, <<>>, <<>>)
    ELSE equation_sides(parts, sympify(parts[1]), sympify(parts[2]))

\* lines 137-138
equation_whole(equation_str, whole) ==
    IF whole = ParseError THEN Exprs(SympifyError(equation_str), <<>>, <<>>, <<>>)
    ELSE Exprs(<<>>, <<>>, <<"Eq">> \o whole \o <<"0">>, whole)

\* line 132
equation_parse(equation_str) ==
    IF \E i \in 1..Len(equation_str) : equation_str[i] = "="
    THEN equation_split(split(equation_str, <<>>))
    ELSE equation_whole(equation_str, sympify(equation_str))

equation_exprs(equation_str) == equation_parse(replace(equation_str))

\* plot_equation_exprs going on to draw and save whatever lines 131-138 raised
plot_equation_exprs_unchecked(e, dom, filename, format, env) ==
    save_with_fallback(
      Progress(<<"sympify", "linspace", "lambdify", "evaluate", "render">>,
               dom, e.expr, e.eq, e.parts),
      filename, format, env, <<"Error plotting equation: ">>)

\* plot_equation from line 139 on, e being the expressions of lines 131-138
plot_equation_exprs(e, dom, filename, format, env) ==
    IF e.raised # <<>>
    THEN Raise(Progress(<<>>, <<>>, <<>>, <<>>, e.parts),
               <<"Error plotting equation: ">>, e.raised)
    ELSE IF ~(free_symbols(e.expr) \subseteq {"x", "y"})
    THEN Raise(Progress(<<"sympify", "linspace", "lambdify">>, dom,
                        e.expr, e.eq, e.parts),
               <<"Error plotting equation: ">>, NameError(e.expr, {"x", "y"}))
    ELSE IF ~env.render
    THEN Raise(Progress(<<"sympify", "linspace", "lambdify", "evaluate">>, dom,
                        e.expr, e.eq, e.parts),
               <<"Error plotting equation: ">>, RenderError)
    ELSE save_with_fallback(
           Progress(<<"sympify", "linspace", "lambdify", "evaluate", "render">>,
                    dom, e.expr, e.eq, e.parts),
           filename, format, env, <<"Error plotting equation: ">>)

\* plot_equation from line 132 on, equation_str being the string of line 131
plot_equation_str(equation_str, dom, filename, format, env) ==
    [plot_equation_exprs(equation_parse(equation_str), dom, filename, format, env)
       EXCEPT !.normalized = equation_str]

\* function_plotter.plot_equation
plot_equation(equation_str, x_min, x_max, y_min, y_max, filename, format, env) ==
    [plot_equation_str(replace(equation_str), EqnDom(x_min, x_max, y_min, y_max),
                       filename, format, env)
       EXCEPT !.bounds = <<x_min, x_max, y_min, y_max>>]

(***************************************************************************)
(* The inputs a user types.                                                *)
(***************************************************************************)
SVG == <<"s", "v", "g">>
PDF == <<"p", "d", "f">>
Formats == {SVG, PDF}

FuncStrs == { <<"x", "^", "2">>,            \* x^2
              <<"x", "^", "^", "2">>,       \* x^^2: rejected by the parser
              <<"y">> }                     \* a symbol lambdify does not bind

EqnStrs == { <<"x", "=", "y">>,
             <<"x", "^", "2">>,
             <<"x", "=", "1", "=", "y">>,
             <<"x", "^", "^", "2">>,
             <<"x", "=", "y", "^", "^", "2">>,
             <<"z">> }

\* texts typed for a lower and an upper bound
XRanges == { << <<"0">>, <<"1">> >>, << <<"1">>, <<"1">> >>,
             << <<"1">>, <<"0">> >>, << <<"n", "a", "n">>, <<"1">> >>,
             << <<"x">>, <<"1">> >> }
YRanges == { << <<"0">>, <<"1">> >>, << <<"1">>, <<"0">> >> }

FileNames == { <<" ">>,                         \* blank: the default name
              <<"a", ".", "s", "v", "g">>,
              <<".", "s", "v", "g">> }          \* nothing but an extension

None == <<>>

\* the record of the last handler run: its inputs, the steps it completed,
\* the exception raised, what it sampled, wrote and told the user (reported
\* is the file name its success message gives), and fig0, the figure the
\* tab held when a Generate handler started; called: the handler got to
\* call the plotting function; normalized: the string that function parsed;
\* bounds: the bounds it was called with
NoRun(op) ==
    [op |-> op, input |-> <<>>, fs0 |-> fs, stages |-> <<>>, raised |-> <<>>,
     dom |-> <<>>, expr |-> <<>>, eq |-> <<>>, parts |-> <<>>,
     base |-> <<>>, format |-> <<>>, resolved |-> <<>>, writes |-> <<>>,
     reported |-> <<>>, fig0 |-> None, called |-> FALSE, normalized |-> <<>>,
     bounds |-> <<>>,
     out |-> <<>>, foreground |-> "", ret |-> "none"]

GuiVars == <<func_fig, func_canvas, func_export_btn,
             eqn_fig, eqn_canvas, eqn_export_btn>>

(***************************************************************************)
(* function_plotter.py                                                     *)
(***************************************************************************)
\* validate_function letting the parser's exception through
validate_function_verbatim(func_str0) ==
    LET func_str == replace(func_str0)
    IN  IF sympify(func_str) = ParseError
        THEN [raised |-> SympifyError(func_str), value |-> <<>>]
        ELSE [raised |-> <<>>, value |-> func_str]

\* validate_function: [raised, value]
validate_function(func_str0) ==
    LET func_str == replace(func_str0)
    IN  IF sympify(func_str) = ParseError
        THEN [raised |-> <<"Invalid function expression">>, value |-> <<>>]
        ELSE [raised |-> <<>>, value |-> func_str]

\* main's handler of ValueError, lines 242-244: the loop goes on
main_except(op, input, e) ==
    /\ last' = [NoRun(op) EXCEPT !.input = input, !.raised = e, !.ret = "error",
                  !.out = << <<"Error: ">> \o e, <<"Please try again.">> >>]
    /\ UNCHANGED <<fs, latex_ok, program, cli_pc, GuiVars>>

\* the environment is consulted only by a plot that gets to draw
NoEnv == [render |-> TRUE, w1 |-> "ok", w2 |-> "ok", hash |-> -9999]
Draws(raised, expr, bound) == raised = <<>> /\ free_symbols(expr) \subseteq bound
function_draws(expr) == Draws(IF expr = ParseError THEN expr ELSE <<>>, expr, {"x"})
equation_draws(e) == Draws(e.raised, e.expr, {"x", "y"})

\* what a pass of the loop that reached the plot call r leaves in last
CliRun(op, input, base, format, filename, r, what) ==
    [NoRun(op) EXCEPT
       !.input = input, !.called = TRUE, !.normalized = r.normalized,
       !.bounds = r.bounds,
       !.stages = r.stages, !.raised = r.raised,
       !.dom = r.dom, !.expr = r.expr, !.eq = r.eq, !.parts = r.parts,
       !.base = base, !.format = format, !.resolved = filename,
       !.writes = r.writes,
       !.reported = IF r.ret THEN filename ELSE <<>>,
       !.out = IF r.ret
               THEN Append(r.out, <<what, " plotted successfully and saved as '">>
                                    \o filename \o <<"'">>)
               ELSE r.out,
       !.ret = IF r.ret THEN "success" ELSE "error"]

\* lines 224-226 and 239-241: the plot call, the success message, break
main_plot(op, input, base, format, filename, r, what) ==
    /\ Cardinality(r.files) <= MaxFiles
    /\ fs' = r.files
    /\ cli_pc' = "exited"
    /\ last' = CliRun(op, input, base, format, filename, r, what)
    /\ UNCHANGED <<latex_ok, program, GuiVars>>

\* the script's start: check_latex_dependencies (sys.exit(1) when a tool is
\* missing), then main's banner
cli_start ==
    /\ program = "function_plotter"
    /\ cli_pc = "exited"
    /\ cli_pc' = IF latex_ok THEN "prompt" ELSE "exited"
    /\ last' = [NoRun("cli_start") EXCEPT
                  !.out = IF latex_ok THEN << <<"Function Plotter">> >>
                          ELSE << <<"Error: The following required LaTeX dependencies are missing:">> >>,
                  !.ret = IF latex_ok THEN "none" ELSE "error"]
    /\ UNCHANGED <<fs, latex_ok, program, GuiVars>>

\* main, lines 209-212: neither '1' nor '2'
main_invalid_choice ==
    /\ cli_pc = "prompt"
    /\ last' = [NoRun("main_invalid_choice") EXCEPT
                  !.out = << <<"Invalid choice. Please enter 1 or 2.">> >>,
                  !.ret = "error"]
    /\ UNCHANGED <<fs, latex_ok, program, cli_pc, GuiVars>>

\* main, lines 245-247: Ctrl-C at a prompt
main_interrupt ==
    /\ cli_pc = "prompt"
    /\ cli_pc' = "exited"
    /\ last' = [NoRun("main_interrupt") EXCEPT !.out = << <<"Exiting...">> >>]
    /\ UNCHANGED <<fs, latex_ok, program, GuiVars>>

\* main, lines 213-226: one pass of the loop with plot_type '1'; each prompt
\* is reached only if the statements before it raised nothing
main_function ==
    /\ cli_pc = "prompt"
    /\ \E func_input \in FuncStrs :
         LET op == "main_function"
             v == validate_function(func_input)
         IN  IF v.raised # <<>> THEN main_except(op, func_input, v.raised)
             ELSE \E xr \in XRanges :
               LET x_min == float(xr[1])
                   x_max == float(xr[2])
               IN  IF x_min = BadFloat
                   THEN main_except(op, func_input,
                           <<"could not convert string to float: ">> \o xr[1])
                   ELSE IF x_max = BadFloat
                   THEN main_except(op, func_input,
                           <<"could not convert string to float: ">> \o xr[2])
                   ELSE IF ge(x_min, x_max)
                   THEN main_except(op, func_input,
                           <<"Minimum x value must be less than maximum x value">>)
                   ELSE \E format \in Formats, name \in FileNames,
                           env \in IF function_draws(sympify(v.value)) THEN PlotEnvs
                                   ELSE {NoEnv} :
                          LET filename == get_safe_filename(strip(name), format)
                          IN  main_plot(op, func_input, strip(name), format, filename,
                                        plot_function(v.value, x_min, x_max,
                                                      filename, format, env),
                                        "Function")

\* main, lines 227-241: one pass of the loop with plot_type '2'
main_equation ==
    /\ cli_pc = "prompt"
    /\ \E equation_str \in EqnStrs, xr \in XRanges, yr \in YRanges :
         LET op == "main_equation"
             x_min == float(xr[1])
             x_max == float(xr[2])
             y_min == float(yr[1])
             y_max == float(yr[2])
             bad == IF x_min = BadFloat THEN xr[1]
                    ELSE IF x_max = BadFloat THEN xr[2]
                    ELSE IF y_min = BadFloat THEN yr[1]
                    ELSE IF y_max = BadFloat THEN yr[2] ELSE <<>>
         IN  IF bad # <<>>
             THEN main_except(op, equation_str,
                              <<"could not convert string to float: ">> \o bad)
             ELSE IF ge(x_min, x_max) \/ ge(y_min, y_max)
             THEN main_except(op, equation_str,
                     <<"Minimum values must be less than maximum values">>)
             ELSE \E format \in Formats, name \in FileNames,
                     env \in IF equation_draws(equation_exprs(equation_str)) THEN PlotEnvs
                             ELSE {NoEnv} :
                    LET filename == get_safe_filename(strip(name), format)
                    IN  main_plot(op, equation_str, strip(name), format, filename,
                                  plot_equation(equation_str, x_min, x_max, y_min,
                                                y_max, filename, format, env),
                                  "Equation")

(***************************************************************************)
(* plotter_gui.py                                                          *)
(***************************************************************************)
\* how drawing ends in the GUI: the plot call raises, or canvas.draw() does
GuiRenders == {"ok", "plot_error", "draw_error"}

Figure(title) == <<"Figure">> \o title
FigureCanvasTkAgg(fig) == <<"FigureCanvasTkAgg">> \o fig
latex_msg == <<"Error: The following required LaTeX dependencies are missing:">>
TypeError == <<"Cannot convert expression to float">>

\* the state of one plot_function_gui / plot_equation_gui_preview call
GuiProgress(raised, fig, stages, dom, expr, eq, parts) ==
    [raised |-> raised, fig |-> fig, stages |-> stages, dom |-> dom,
     expr |-> expr, eq |-> eq, parts |-> parts, normalized |-> <<>>,
     bounds |-> <<>>]

NoGuiPlot == GuiProgress(<<>>, None, <<>>, <<>>, <<>>, <<>>, <<>>)

\* lines 80 and 113-114: the grids of the GUI
GUI_N_FUNC == 1000
GUI_N_EQN == 400
GuiFuncDom_100(x_min, x_max) == << [lo |-> x_min, hi |-> x_max, n |-> 100] >>
GuiFuncDom(x_min, x_max) == << [lo |-> x_min, hi |-> x_max, n |-> GUI_N_FUNC] >>
GuiEqnDom(x_min, x_max, y_min, y_max) ==
    << [lo |-> x_min, hi |-> x_max, n |-> GUI_N_EQN],
       [lo |-> y_min, hi |-> y_max, n |-> GUI_N_EQN] >>

\* plot_function_gui from line 79 on, expr being sympify(a)
plot_function_gui_expr(expr, a, dom, render) ==
    IF expr = ParseError
    THEN GuiProgress(SympifyError(a), None, <<>>, <<>>, <<>>, <<>>, <<>>)
    ELSE IF ~(free_symbols(expr) \subseteq {"x"})
    THEN GuiProgress(NameError(expr, {"x"}), None,
                     <<"sympify", "lambdify", "linspace">>, dom, expr, <<>>, <<>>)
    ELSE IF render = "plot_error"
    THEN GuiProgress(RenderError, None,
                     <<"sympify", "lambdify", "linspace", "evaluate">>,
                     dom, expr, <<>>, <<>>)
    ELSE GuiProgress(<<>>, Figure(expr),
                     <<"sympify", "lambdify", "linspace", "evaluate", "render">>,
                     dom, expr, <<>>, <<>>)

\* line 78: sympify(func_str.replace('^', '**'))
plot_function_gui_str(a, dom, render) ==
    [plot_function_gui_expr(sympify(a), a, dom, render) EXCEPT !.normalized = a]

\* plot_function_gui parsing the string as typed
plot_function_gui_raw(func_str, x_min, x_max, render) ==
    [plot_function_gui_str(func_str, GuiFuncDom(x_min, x_max), render)
       EXCEPT !.bounds = <<x_min, x_max>>]

\* plot_function_gui
plot_function_gui(func_str, x_min, x_max, render) ==
    [plot_function_gui_str(replace(func_str), GuiFuncDom(x_min, x_max), render)
       EXCEPT !.bounds = <<x_min, x_max>>]

\* lines 107-108 of plot_equation_gui_preview
gui_equation_sides(parts, left, right) ==
    IF left = ParseError THEN Exprs(SympifyError(parts[1]), parts, <<>>, <<>>)
    ELSE IF right = ParseError THEN Exprs(SympifyError(parts[2]), parts, <<>>, <<>>)
    ELSE Exprs(<<>>, parts, <<"Eq">> \o left \o right, <<"Sub">> \o left \o right)

\* line 106: left, right = equation_str.split('=')
gui_equation_split(parts) ==
    IF Len(parts) # 2 THEN Exprs(UnpackError, <<>>, <<>>, <<>>)
    ELSE gui_equation_sides(parts, sympify(parts[1]), sympify(parts[2]))

\* lines 110-111
gui_equation_whole(equation_str, whole) ==
    IF whole = ParseError THEN Exprs(SympifyError(equation_str), <<>>, <<>>, <<>>)
    ELSE Exprs(<<>>, <<>>, <<"Eq">> \o whole \o <<"0">>, whole)

\* line 105
gui_equation_parse(equation_str) ==
    IF \E i \in 1..Len(equation_str) : equation_str[i] = "="
    THEN gui_equation_split(split(equation_str, <<>>))
    ELSE gui_equation_whole(equation_str, sympify(equation_str))

\* lines 104-111 of plot_equation_gui_preview
gui_equation_exprs(equation_str) == gui_equation_parse(replace(equation_str))

\* plot_equation_gui_preview from line 112 on
plot_equation_gui_exprs(e, dom, render) ==
    IF e.raised # <<>>
    THEN GuiProgress(e.raised, None, <<>>, <<>>, <<>>, <<>>, e.parts)
    ELSE IF ~(free_symbols(e.expr) \subseteq {"x", "y"})
    THEN GuiProgress(NameError(e.expr, {"x", "y"}), None,
                     <<"sympify", "linspace", "lambdify">>, dom,
                     e.expr, e.eq, e.parts)
    ELSE IF render = "plot_error"
    THEN GuiProgress(RenderError, None,
                     <<"sympify", "linspace", "lambdify", "evaluate">>, dom,
                     e.expr, e.eq, e.parts)
    ELSE GuiProgress(<<>>, Figure(e.eq),
                     <<"sympify", "linspace", "lambdify", "evaluate", "render">>,
                     dom, e.expr, e.eq, e.parts)

\* plot_equation_gui_preview from line 105 on
plot_equation_gui_str(equation_str, dom, render) ==
    [plot_equation_gui_exprs(gui_equation_parse(equation_str), dom, render)
       EXCEPT !.normalized = equation_str]

\* plot_equation_gui_preview
plot_equation_gui_preview(equation_str, x_min, x_max, y_min, y_max, render) ==
    [plot_equation_gui_str(replace(equation_str),
                           GuiEqnDom(x_min, x_max, y_min, y_max), render)
       EXCEPT !.bounds = <<x_min, x_max, y_min, y_max>>]

\* export_current_figure: [ok, msg, files]
export_current_figure(fig, filename, format_, outcome) ==
    IF outcome = "ok"
    THEN [ok |-> TRUE, files |-> savefig(fs, filename, outcome),
          msg |-> <<"Plot exported as '">> \o filename \o <<"'">>]
    ELSE [ok |-> FALSE, files |-> savefig(fs, filename, outcome),
          msg |-> <<"Error exporting plot: ">> \o OSError(filename)]

\* what a Generate handler leaves in last; g is [e, text, r, draw]
GuiRun(op, input, fig0, g) ==
    [NoRun(op) EXCEPT !.input = input, !.fig0 = fig0, !.called = g.called,
                      !.normalized = g.r.normalized, !.bounds = g.r.bounds,
                      !.stages = g.r.stages, !.raised = g.e,
                      !.dom = g.r.dom, !.expr = g.r.expr, !.eq = g.r.eq,
                      !.parts = g.r.parts, !.out = <<g.text>>,
                      !.foreground = IF g.e = <<>> THEN "green" ELSE "red",
                      !.ret = IF g.e = <<>> THEN "success" ELSE "error"]

\* an Export handler's run
ExportRun(op, base, format_, filename, outcome, x) ==
    [NoRun(op) EXCEPT !.base = base, !.format = format_, !.resolved = filename,
                      !.stages = IF x.ok THEN <<"savefig">> ELSE <<>>,
                      !.raised = IF x.ok THEN <<>> ELSE OSError(filename),
                      !.writes = << [path |-> filename, outcome |-> outcome] >>,
                      !.reported = IF x.ok THEN filename ELSE <<>>,
                      !.out = <<x.msg>>,
                      !.foreground = IF x.ok THEN "green" ELSE "red",
                      !.ret = IF x.ok THEN "success" ELSE "error"]

\* a handler that only sets the status label
StatusOnly(op, text) ==
    /\ last' = [NoRun(op) EXCEPT !.out = <<text>>, !.foreground = "red",
                                 !.ret = "error"]
    /\ UNCHANGED <<fs, latex_ok, program, cli_pc, GuiVars>>

\* float(sympify(text)) of an entry as [raised, value]
Entry(raised, value) == [raised |-> raised, value |-> value]
entry_value(text, value) ==
    IF value # BadFloat THEN Entry(<<>>, value)
    ELSE IF sympify(text) = ParseError THEN Entry(SympifyError(strip(text)), value)
    ELSE Entry(TypeError, value)
entry_float(text) == entry_value(text, sympify_float(text))

\* generate_function_plot, lines 232-235: the exception the bounds raise
function_bounds(x_min, x_max) ==
    IF x_min.raised # <<>> THEN x_min.raised
    ELSE IF x_max.raised # <<>> THEN x_max.raised
    ELSE IF ge(x_min.value, x_max.value) THEN <<"x min must be less than x max">>
    ELSE <<>>
function_bounds_error(xr) == function_bounds(entry_float(xr[1]), entry_float(xr[2]))

\* the run of a Generate handler, [e, text, r, called, draw].  pre is raised before
\* the plot call (outer handler), r.raised by the plot call (inner handler);
\* draw: canvas.draw() raised after the new figure and canvas were stored
Generation(pre, r, render) ==
    [e |-> IF pre # <<>> THEN pre
           ELSE IF r.raised # <<>> THEN r.raised
           ELSE IF render = "draw_error" THEN RenderError ELSE <<>>,
     text |-> IF pre # <<>> THEN <<"Error: ">> \o pre
              ELSE IF r.raised # <<>> THEN <<"Error generating plot: ">> \o r.raised
              ELSE IF render = "draw_error" THEN <<"Error: ">> \o RenderError
              ELSE <<"Plot generated. Click Export to save.">>,
     r |-> r,
     called |-> pre = <<>>,
     draw |-> pre = <<>> /\ r.raised = <<>> /\ render = "draw_error"]

function_generation_pre(pre, func_str, x_min, x_max, render) ==
    Generation(pre,
               IF pre # <<>> THEN NoGuiPlot
               ELSE plot_function_gui(func_str, x_min, x_max, render),
               render)

\* generate_function_plot, lines 226-260
function_generation(func_input, xr, render) ==
    function_generation_pre(function_bounds_error(xr), strip(func_input),
                            sympify_float(xr[1]), sympify_float(xr[2]), render)

\* the runs of generate_function_plot the entries and the drawing allow;
\* entries and outcomes that no statement reached make no difference
function_generations ==
    { [input |-> func_input, g |-> function_generation(func_input, xr, render)] :
        func_input \in FuncStrs, xr \in XRanges, render \in GuiRenders }

\* generate_function_done with the handlers leaving the canvas alone
generate_function_done_keep(func_input, g) ==
    /\ func_export_btn' = IF g.e = <<>> THEN "normal" ELSE func_export_btn
    /\ IF g.e = <<>>
       THEN /\ func_fig' = g.r.fig
            /\ func_canvas' = FigureCanvasTkAgg(g.r.fig)
       ELSE UNCHANGED <<func_canvas, func_fig>>
    /\ last' = GuiRun("generate_function_plot", func_input, func_fig, g)
    /\ UNCHANGED <<fs, latex_ok, program, cli_pc, eqn_fig, eqn_canvas,
                   eqn_export_btn>>

\* lines 239-260: the widgets after the run g
generate_function_done(func_input, g) ==
    /\ func_export_btn' = IF g.e = <<>> THEN "normal" ELSE "disabled"
    /\ IF g.e = <<>>
       THEN /\ func_fig' = g.r.fig
            /\ func_canvas' = FigureCanvasTkAgg(g.r.fig)
       ELSE IF func_canvas # None \/ g.draw
       THEN func_canvas' = None /\ func_fig' = None
       ELSE UNCHANGED <<func_canvas, func_fig>>
    /\ last' = GuiRun("generate_function_plot", func_input, func_fig, g)
    /\ UNCHANGED <<fs, latex_ok, program, cli_pc, eqn_fig, eqn_canvas,
                   eqn_export_btn>>

\* PlotterGUI.generate_function_plot
generate_function_plot ==
    /\ program = "plotter_gui"
    /\ \/ ~latex_ok /\ StatusOnly("generate_function_plot", latex_msg)
       \/ /\ latex_ok
          /\ \E run \in function_generations :
               generate_function_done(run.input, run.g)

\* PlotterGUI.export_function_plot
export_function_plot ==
    /\ program = "plotter_gui"
    /\ IF func_fig = None
       THEN StatusOnly("export_function_plot", <<"No plot to export.">>)
       ELSE \E format_ \in Formats, name \in FileNames,
               outcome \in {"ok"} \cup WriteErrors :
              LET filename == gui_get_safe_filename(strip(name), format_)
                  x == export_current_figure(func_fig, filename, format_, outcome)
              IN  /\ Cardinality(x.files) <= MaxFiles
                  /\ fs' = x.files
                  /\ last' = ExportRun("export_function_plot", strip(name),
                                       format_, filename, outcome, x)
                  /\ UNCHANGED <<latex_ok, program, cli_pc, GuiVars>>

\* generate_equation_plot, lines 320-325: the exception the bounds raise
equation_bounds(x_min, x_max, y_min, y_max) ==
    IF x_min.raised # <<>> THEN x_min.raised
    ELSE IF x_max.raised # <<>> THEN x_max.raised
    ELSE IF y_min.raised # <<>> THEN y_min.raised
    ELSE IF y_max.raised # <<>> THEN y_max.raised
    ELSE IF ge(x_min.value, x_max.value) \/ ge(y_min.value, y_max.value)
    THEN <<"min must be less than max for both x and y">>
    ELSE <<>>
equation_bounds_error(xr, yr) ==
    equation_bounds(entry_float(xr[1]), entry_float(xr[2]),
                    entry_float(yr[1]), entry_float(yr[2]))

equation_generation_pre(pre, eqn_str, x_min, x_max, y_min, y_max, render) ==
    Generation(pre,
               IF pre # <<>> THEN NoGuiPlot
               ELSE plot_equation_gui_preview(eqn_str, x_min, x_max,
                                              y_min, y_max, render),
               render)

\* generate_equation_plot, lines 314-350
equation_generation(eqn_input, xr, yr, render) ==
    equation_generation_pre(equation_bounds_error(xr, yr), strip(eqn_input),
                            sympify_float(xr[1]), sympify_float(xr[2]),
                            sympify_float(yr[1]), sympify_float(yr[2]), render)

\* the runs of generate_equation_plot the entries and the drawing allow
equation_generations ==
    { [input |-> eqn_input, g |-> equation_generation(eqn_input, xr, yr, render)] :
        eqn_input \in EqnStrs, xr \in XRanges, yr \in YRanges,
        render \in GuiRenders }

\* generate_equation_done with the handlers not disabling the Export button
generate_equation_done_enabled(eqn_input, g) ==
    /\ eqn_export_btn' = IF g.e = <<>> THEN "normal" ELSE eqn_export_btn
    /\ IF g.e = <<>>
       THEN /\ eqn_fig' = g.r.fig
            /\ eqn_canvas' = FigureCanvasTkAgg(g.r.fig)
       ELSE IF eqn_canvas # None \/ g.draw
       THEN eqn_canvas' = None /\ eqn_fig' = None
       ELSE UNCHANGED <<eqn_canvas, eqn_fig>>
    /\ last' = GuiRun("generate_equation_plot", eqn_input, eqn_fig, g)
    /\ UNCHANGED <<fs, latex_ok, program, cli_pc, func_fig, func_canvas,
                   func_export_btn>>

\* lines 329-350: the widgets after the run g
generate_equation_done(eqn_input, g) ==
    /\ eqn_export_btn' = IF g.e = <<>> THEN "normal" ELSE "disabled"
    /\ IF g.e = <<>>
       THEN /\ eqn_fig' = g.r.fig
            /\ eqn_canvas' = FigureCanvasTkAgg(g.r.fig)
       ELSE IF eqn_canvas # None \/ g.draw
       THEN eqn_canvas' = None /\ eqn_fig' = None
       ELSE UNCHANGED <<eqn_canvas, eqn_fig>>
    /\ last' = GuiRun("generate_equation_plot", eqn_input, eqn_fig, g)
    /\ UNCHANGED <<fs, latex_ok, program, cli_pc, func_fig, func_canvas,
                   func_export_btn>>

\* PlotterGUI.generate_equation_plot
generate_equation_plot ==
    /\ program = "plotter_gui"
    /\ \/ ~latex_ok /\ StatusOnly("generate_equation_plot", latex_msg)
       \/ /\ latex_ok
          /\ \E run \in equation_generations :
               generate_equation_done(run.input, run.g)

\* PlotterGUI.export_equation_plot
export_equation_plot ==
    /\ program = "plotter_gui"
    /\ IF eqn_fig = None
       THEN StatusOnly("export_equation_plot", <<"No plot to export.">>)
       ELSE \E format_ \in Formats, name \in FileNames,
               outcome \in {"ok"} \cup WriteErrors :
              LET filename == gui_get_safe_filename(strip(name), format_)
                  x == export_current_figure(eqn_fig, filename, format_, outcome)
              IN  /\ Cardinality(x.files) <= MaxFiles
                  /\ fs' = x.files
                  /\ last' = ExportRun("export_equation_plot", strip(name),
                                       format_, filename, outcome, x)
                  /\ UNCHANGED <<latex_ok, program, cli_pc, GuiVars>>

(***************************************************************************)
(* The system.  The directory may hold files of earlier sessions; the GUI  *)
(* is as create_function_tab and create_equation_tab leave it; main has    *)
(* not been started.                                                       *)
(***************************************************************************)
InitFiles == { <<"o", "u", "t", "p", "u", "t", ".", "s", "v", "g">>,
               <<"o", "u", "t", "p", "u", "t", "_", "1", ".", "s", "v", "g">> }

Init ==
    /\ fs \in SUBSET InitFiles
    /\ latex_ok \in BOOLEAN
    /\ program \in {"function_plotter", "plotter_gui"}
    /\ cli_pc = "exited"
    /\ func_fig = None
    /\ func_canvas = None
    /\ func_export_btn = "disabled"
    /\ eqn_fig = None
    /\ eqn_canvas = None
    /\ eqn_export_btn = "disabled"
    /\ last = NoRun("init")

Next ==
    \/ cli_start
    \/ main_invalid_choice
    \/ main_interrupt
    \/ main_function
    \/ main_equation
    \/ generate_function_plot
    \/ export_function_plot
    \/ generate_equation_plot
    \/ export_equation_plot

Spec == Init /\ [][Next]_vars

(***************************************************************************)
(* Properties of the last handler run                                      *)
(***************************************************************************)
CliPlots == {"main_function", "main_equation"}
Generates == {"generate_function_plot", "generate_equation_plot"}
Exports == {"export_function_plot", "export_equation_plot"}
FunctionOps == {"main_function", "generate_function_plot"}
EquationOps == {"main_equation", "generate_equation_plot"}

\* the widgets of the tab the last handler belongs to
TabFig == IF last.op \in {"generate_function_plot", "export_function_plot"}
          THEN func_fig ELSE eqn_fig
TabCanvas == IF last.op \in {"generate_function_plot", "export_function_plot"}
             THEN func_canvas ELSE eqn_canvas
TabExportBtn == IF last.op \in {"generate_function_plot", "export_function_plot"}
                THEN func_export_btn ELSE eqn_export_btn

\* the run resolved an output file name
Resolved == last.op \in CliPlots \cup Exports /\ last.resolved # <<>>

\* the name with its extension, and the k-th numbered name after it
WithExtension(base, format) ==
    LET b == IF base = <<>> THEN <<"o", "u", "t", "p", "u", "t">> ELSE base
    IN  IF endswith(b, <<".">> \o format) THEN b ELSE b \o <<".">> \o format
Numbered(name, k) ==
    LET ne == splitext(name) IN ne[1] \o <<"_">> \o str_int(k) \o ne[2]

\* C1: the resolved file name does not exist when the handler starts; it is
\* the name with its extension if that is free, and otherwise the numbered
\* name with the smallest counter k >= 1 that is free
C1_SafeFilename ==
    Resolved =>
      LET b == WithExtension(last.base, last.format)
      IN  /\ last.resolved \notin last.fs0
          /\ IF b \notin last.fs0 THEN last.resolved = b
             ELSE \E k \in 1..Cardinality(last.fs0) :
                    /\ last.resolved = Numbered(b, k)
                    /\ \A j \in 1..(k - 1) : Numbered(b, j) \in last.fs0

\* output.svg and output_1.svg exist and output_2.svg is resolved
C1_Witness ==
    /\ Resolved
    /\ WithExtension(last.base, last.format) \in last.fs0
    /\ last.resolved = Numbered(WithExtension(last.base, last.format), 2)

\* C2: no write of a handler targets a path that exists when the handler
\* starts, the write to the fallback name included
C2_NoOverwrite ==
    \A i \in 1..Len(last.writes) : last.writes[i].path \notin last.fs0

\* C3: whenever a handler samples, min < max holds on every axis sampled
C3_SampledInRange ==
    \A i \in 1..Len(last.dom) : lt(last.dom[i].lo, last.dom[i].hi)

\* C4: when the first write of a handler fails, exactly one more write is
\* attempted, to output_<hash mod 10000>.<format>; if it succeeds the file
\* name reported is that name, if it fails the handler ends in an error
C4_FallbackReported ==
    (last.writes # <<>> /\ last.writes[1].outcome # "ok") =>
      /\ Len(last.writes) = 2
      /\ \E h \in Hashes :
           last.writes[2].path =
             <<"o", "u", "t", "p", "u", "t", "_">> \o str_int(h % 10000)
               \o <<".">> \o last.format
      /\ last.writes[2].outcome = "ok" =>
           last.ret = "success" /\ last.reported = last.writes[2].path
      /\ last.writes[2].outcome # "ok" =>
           last.ret = "error" /\ last.raised # <<>>

\* C5: a pass of main's loop ends with the success message naming the
\* resolved file, or with an error message and the loop at its prompt again
C5_Reprompt ==
    last.op \in CliPlots \cup {"main_invalid_choice"} =>
      \/ last.ret = "success" /\ last.reported = last.resolved
      \/ last.ret = "error" /\ last.out # <<>> /\ cli_pc = "prompt"

\* a Generate handler failed on a tab that held a figure
FailedGenerate ==
    last.op \in Generates /\ last.ret = "error" /\ last.fig0 # None

\* C6 (as stated): a failed Generate on a tab that holds a figure leaves the
\* figure and the canvas as they were, and Export enabled
C6_FailedGenerateKeeps ==
    FailedGenerate =>
      /\ TabFig = last.fig0
      /\ TabCanvas = FigureCanvasTkAgg(last.fig0)
      /\ TabExportBtn = "normal"

\* C6 (amended): a failed Generate on a tab that holds a figure discards it:
\* the tab has no figure and no canvas afterwards and Export is disabled
C6_FailedGenerateDiscards ==
    FailedGenerate =>
      /\ TabFig = None
      /\ TabCanvas = None
      /\ TabExportBtn = "disabled"

\* the function tab held a figure and lost it to a Generate that failed
C6_Witness ==
    /\ FailedGenerate
    /\ last.op = "generate_function_plot"
    /\ func_fig = None

\* the parser rejects the expression typed
TheEquals(t) == {i \in 1..Len(t) : t[i] = "="}
RejectedFunction(s) == sympify(replace(s)) = ParseError
RejectedEquation(s) ==
    LET t == replace(s)
    IN  IF TheEquals(t) = {} THEN sympify(t) = ParseError
        ELSE /\ Cardinality(TheEquals(t)) = 1
             /\ LET i == CHOOSE i \in TheEquals(t) : TRUE
                IN  \/ sympify(SubSeq(t, 1, i - 1)) = ParseError
                    \/ sympify(SubSeq(t, i + 1, Len(t))) = ParseError
RejectedRun ==
    /\ last.input # <<>>
    /\ \/ last.op \in FunctionOps /\ RejectedFunction(last.input)
       \/ last.op \in EquationOps /\ RejectedEquation(last.input)

\* C7: a handler given an expression the parser rejects reports an error,
\* leaves no figure with its caller and writes no file
C7_RejectedNoArtifact ==
    RejectedRun =>
      /\ last.ret = "error"
      /\ last.out # <<>>
      /\ \A i \in 1..Len(last.stages) : last.stages[i] \notin {"render", "savefig"}
      /\ last.op \in Generates => TabFig = None /\ TabCanvas = None
      /\ last.writes = <<>>
      /\ fs = last.fs0

\* a rejected equation typed into a tab that held a figure: the parser's
\* exception is shown and the tab is empty
C7_Witness ==
    /\ RejectedRun
    /\ last.op = "generate_equation_plot"
    /\ last.fig0 # None
    /\ last.called
    /\ eqn_fig = None

\* the exception is the parser's
ParseFailure ==
    last.raised # <<>> /\ Head(last.raised) = Head(SympifyError(<<>>))
\* the handler handed a rejected expression to the parser
ParserRejected ==
    \/ last.op = "main_function" /\ last.input # <<>>
         /\ RejectedFunction(last.input)
    \/ last.op \in Generates \cup {"main_equation"} /\ last.called /\ ParseFailure
\* the strings the parser is given for the input s
Pieces(s) ==
    LET t == replace(s)
    IN  {t} \cup {SubSeq(t, 1, i - 1) : i \in TheEquals(t)}
            \cup {SubSeq(t, i + 1, Len(t)) : i \in TheEquals(t)}
Shown(prefix) ==
    \E i \in 1..Len(last.out) : last.out[i] = prefix \o last.raised

\* C8 (as stated): when parsing fails the error carries the string typed and
\* the parser's message, and that message is shown to the user
C8_ParseErrorVerbatim ==
    ParserRejected =>
      /\ last.raised = SympifyError(last.input)
      /\ \E prefix \in {<<"Error: ">>, <<"Error plotting equation: ">>,
                        <<"Error generating plot: ">>} : Shown(prefix)

\* C8 (amended): main's function branch shows the fixed message "Invalid
\* function expression"; the equation branch and the GUI show the parser's
\* message, which carries the string the parser was given (the input with
\* ^ replaced by **, or one side of its '='), after the handler's prefix
C8_ParseErrorShown ==
    ParserRejected =>
      IF last.op = "main_function"
      THEN /\ last.raised = <<"Invalid function expression">>
           /\ Shown(<<"Error: ">>)
      ELSE /\ \E piece \in Pieces(last.input) : last.raised = SympifyError(piece)
           /\ Shown(IF last.op = "main_equation"
                    THEN <<"Error plotting equation: ">>
                    ELSE <<"Error generating plot: ">>)

\* x^^2 given to main as a function: the fixed message is shown
C8_Witness ==
    /\ ParserRejected
    /\ last.op = "main_function"
    /\ last.out[1] = <<"Error: ", "Invalid function expression">>

\* the plotting function was given an equation with more than one '='
ManyEquals ==
    /\ last.op \in EquationOps /\ last.called
    /\ Cardinality(TheEquals(replace(last.input))) > 1

\* C9 (as stated): for an equation with more than one '=' the text before
\* the first '=' is the left side and all the rest is the right side
C9_SplitOnFirst ==
    ManyEquals =>
      LET t == replace(last.input)
          i == CHOOSE i \in TheEquals(t) : \A j \in TheEquals(t) : i <= j
      IN  last.parts = <<SubSeq(t, 1, i - 1), SubSeq(t, i + 1, Len(t))>>

\* C9 (amended): an equation with more than one '=' is split at every '='
\* and the unpacking into two sides raises: the handler ends in that error,
\* no side is formed or parsed, nothing is sampled, drawn or written
C9_ManyEqualsRejected ==
    ManyEquals =>
      /\ last.raised = UnpackError
      /\ last.ret = "error"
      /\ Shown(IF last.op = "main_equation" THEN <<"Error plotting equation: ">>
               ELSE <<"Error generating plot: ">>)
      /\ last.parts = <<>> /\ last.expr = <<>> /\ last.eq = <<>>
      /\ last.stages = <<>> /\ last.dom = <<>>
      /\ last.writes = <<>> /\ fs = last.fs0

\* x=1=y given to plot_equation
C9_Witness ==
    /\ ManyEquals
    /\ last.op = "main_equation"
    /\ last.input = <<"x", "=", "1", "=", "y">>
    /\ last.out = << <<"Error plotting equation: ">> \o UnpackError >>

\* the pair the equation string s stands for
EquationPair(s) ==
    LET t == replace(s)
    IN  IF TheEquals(t) = {}
        THEN [expr |-> sympify(t), eq |-> <<"Eq">> \o sympify(t) \o <<"0">>]
        ELSE LET i == CHOOSE i \in TheEquals(t) : TRUE
                 lhs == sympify(SubSeq(t, 1, i - 1))
                 rhs == sympify(SubSeq(t, i + 1, Len(t)))
             IN  [expr |-> <<"Sub">> \o lhs \o rhs, eq |-> <<"Eq">> \o lhs \o rhs]
\* the handler normalized an equation with at most one '=' that parses
ParsedEquation ==
    /\ last.op \in EquationOps /\ last.called
    /\ Cardinality(TheEquals(replace(last.input))) <= 1
    /\ ~RejectedEquation(last.input)

\* C10: without '=' the expression evaluated is the parsed string and the
\* equality shown is expr = 0; with one '=' they are lhs - rhs and lhs = rhs;
\* plot_equation and plot_equation_gui_preview derive the same pair
C10_EquationPair ==
    ParsedEquation =>
      /\ last.expr = EquationPair(last.input).expr
      /\ last.eq = EquationPair(last.input).eq
      /\ LET other == IF last.op = "main_equation"
                       THEN gui_equation_exprs(strip(last.input))
                       ELSE equation_exprs(last.input)
         IN  other.expr = last.expr /\ other.eq = last.eq

\* x = y gave x - y and Eq(x, y) in the GUI
C10_Witness ==
    /\ ParsedEquation
    /\ last.op = "generate_equation_plot"
    /\ last.expr = <<"Sub", "x", "y">>
    /\ last.eq = <<"Eq", "x", "y">>

\* the plotting function was called: the string it was given, the entries
\* of the GUI being stripped by the handlers
Typed == IF last.op \in Generates THEN strip(last.input) ELSE last.input
Normalized == last.op \in FunctionOps \cup EquationOps /\ last.called

\* n is s with every '^' replaced by '**' and nothing else changed
Carets(s, i) == Cardinality({j \in 1..i : s[j] = "^"})
CaretsExpanded(s, n) ==
    /\ Len(n) = Len(s) + Carets(s, Len(s))
    /\ \A i \in 1..Len(s) :
         LET p == i + Carets(s, i - 1)
         IN  IF s[i] = "^" THEN n[p] = "*" /\ n[p + 1] = "*" ELSE n[p] = s[i]

\* C11: the string parsed is the string typed with every '^' replaced by
\* '**' and nothing else changed: it holds no '^', it is the string typed
\* if that holds no '^', and normalizing it again changes nothing
C11_Normalize ==
    Normalized =>
      /\ CaretsExpanded(Typed, last.normalized)
      /\ \A i \in 1..Len(last.normalized) : last.normalized[i] # "^"
      /\ Carets(Typed, Len(Typed)) = 0 => last.normalized = Typed
      /\ replace(last.normalized) = last.normalized

\* x^2 typed into the function tab: x**2 is parsed, as x to the power 2
C11_Witness ==
    /\ Normalized
    /\ last.op = "generate_function_plot"
    /\ last.input = <<"x", "^", "2">>
    /\ last.normalized = <<"x", "*", "*", "2">>
    /\ last.expr = <<"Pow", "x", "2">>

\* C12: the resolved name ends with ".<format>"; it is the name typed
\* ("output" if none) with the extension appended only if it does not end
\* with it already, or that name with a counter _k put before the extension
C12_ExtensionPlacement ==
    Resolved =>
      LET ext == <<".">> \o last.format
          b == WithExtension(last.base, last.format)
          stem == SubSeq(b, 1, Len(b) - Len(ext))
      IN  /\ endswith(last.resolved, ext)
          /\ \/ last.resolved = b
             \/ \E k \in 1..(Cardinality(last.fs0) + 1) :
                  last.resolved = stem \o <<"_">> \o str_int(k) \o ext

\* the steps of a plot that come before its first savefig
Drawn ==
    /\ Len(last.stages) >= 5
    /\ {last.stages[i] : i \in 1..5} =
         {"sympify", "lambdify", "linspace", "evaluate", "render"}

\* C13: a Generate handler, failed or not, attempts no write and leaves the
\* directory as it was; in the GUI the directory changes only in an Export
\* handler; main attempts a write only after parsing, sampling, evaluating
\* and drawing have all ended without an exception
C13_RenderingNeverWrites ==
    /\ last.op \in Generates => last.writes = <<>> /\ fs = last.fs0
    /\ (program = "plotter_gui" /\ fs # last.fs0) => last.op \in Exports
    /\ (last.op \in CliPlots /\ last.writes # <<>>) => Drawn
    /\ (last.op \in CliPlots /\ ~Drawn) => fs = last.fs0

\* main's function plot failed while drawing: no write was attempted
C13_Witness ==
    /\ last.op = "main_function"
    /\ last.raised = RenderError
    /\ last.writes = <<>>
    /\ fs = last.fs0

\* the plotting function sampled, and was called with min < max on each axis
Sampled == last.op \in FunctionOps \cup EquationOps /\ last.dom # <<>>
InRange ==
    \A i \in 1..(Len(last.bounds) \div 2) :
      lt(last.bounds[2 * i - 1], last.bounds[2 * i])

\* C14: a function plot called with x_min < x_max samples 1000 x values from
\* x_min to x_max, an equation plot called with min < max on both axes a
\* grid of 400 x values from x_min to x_max by 400 y values from y_min to
\* y_max, in main and in the GUI alike
C14_SampleCounts ==
    (Sampled /\ InRange) =>
      IF last.op \in FunctionOps
      THEN /\ Len(last.bounds) = 2
           /\ last.dom = << [lo |-> last.bounds[1], hi |-> last.bounds[2],
                             n |-> 1000] >>
      ELSE /\ Len(last.bounds) = 4
           /\ last.dom = << [lo |-> last.bounds[1], hi |-> last.bounds[2],
                             n |-> 400],
                            [lo |-> last.bounds[3], hi |-> last.bounds[4],
                             n |-> 400] >>

\* x^2 plotted on [0, 1] in the function tab
C14_Witness ==
    /\ Sampled /\ InRange
    /\ last.op = "generate_function_plot"
    /\ last.ret = "success"
    /\ last.bounds = <<Num(0), Num(1)>>
    /\ last.dom[1].n = 1000

FunctionTabOps == {"generate_function_plot", "export_function_plot"}
EquationTabOps == {"generate_equation_plot", "export_equation_plot"}
FunctionTab == <<func_fig, func_canvas, func_export_btn>>
EquationTab == <<eqn_fig, eqn_canvas, eqn_export_btn>>

\* an enabled Export button goes with a figure
ExportEnabledHasFigure ==
    /\ func_export_btn = "normal" => func_fig # None
    /\ eqn_export_btn = "normal" => eqn_fig # None
\* Export without a figure writes nothing and says so
ExportWithoutFigure ==
    (last.op \in Exports /\ TabFig = None) =>
      /\ last.out = << <<"No plot to export.">> >>
      /\ last.writes = <<>>
      /\ fs = last.fs0
\* a tab's Export button is enabled by a Generate of the tab that succeeds,
\* disabled by one that fails, and changed by no other handler
ButtonFollowsGenerate ==
    /\ last'.op = "generate_function_plot" =>
         (func_export_btn' = "normal" <=> last'.ret = "success")
    /\ last'.op = "generate_equation_plot" =>
         (eqn_export_btn' = "normal" <=> last'.ret = "success")
    /\ last'.op # "generate_function_plot" => func_export_btn' = func_export_btn
    /\ last'.op # "generate_equation_plot" => eqn_export_btn' = eqn_export_btn
\* a handler of one tab leaves the other tab's figure, canvas and button
\* alone, and an Export handler leaves both tabs' alone
TabsIndependent ==
    /\ last'.op \in FunctionTabOps => EquationTab' = EquationTab
    /\ last'.op \in EquationTabOps => FunctionTab' = FunctionTab
    /\ last'.op \in Exports => GuiVars' = GuiVars

\* C15: in every state of the GUI an enabled Export button means the tab
\* holds a figure and the last Generate of that tab succeeded; a failed
\* Generate leaves the button disabled; Export without a figure writes no
\* file and only shows "No plot to export."; a handler of one tab never
\* changes the figure, canvas or button of the other
C15_ExportButton ==
    /\ [](ExportEnabledHasFigure /\ ExportWithoutFigure)
    /\ [][ButtonFollowsGenerate /\ TabsIndependent]_vars

\* a Generate failed on the function tab, whose button is disabled, while
\* the equation tab keeps its figure and its enabled button
C15_Witness ==
    /\ last.op = "generate_function_plot"
    /\ last.ret = "error"
    /\ last.called
    /\ func_export_btn = "disabled" /\ func_fig = None
    /\ eqn_export_btn = "normal" /\ eqn_fig # None

====
